---- MODULE Spec2Model ----
(***************************************************************************)
(* EIP-1559 fee estimation: the two estimators of the repository,          *)
(*   "estimate" = estimate_eip1559_fees  (src/local/eip1559_fees.py)       *)
(*   "eip"      = eip1559_fees           (src/local/fees/fees_eip1559.py)  *)
(* modelled as one call that runs step by step against a node whose RPC    *)
(* responses are chosen nondeterministically.                              *)
(*                                                                         *)
(* Optional[int] is a sequence: <<>> is None, <<v>> is the integer v.      *)
(* Floating-point expressions of the source are modelled by the exact      *)
(* rational result followed by the source's conversion (int() truncates    *)
(* toward zero); this is what IEEE doubles give for every value of the     *)
(* model, whose magnitudes stay far below 2^53.                            *)
(***************************************************************************)
EXTENDS Integers, Sequences, FiniteSets

VARIABLES
    impl,                       \* which estimator runs
    pc,                         \* position of the call
    val,                        \* to_int_hexsafe: argument
    ret,                        \* to_int_hexsafe: returned Optional[int]
    reward_percentile,          \* parameter (percent)
    max_priority_fee_cap_gwei,  \* parameter, a rational <<num, den>> of gwei
    base_fee_bump_blocks,       \* parameter
    rpc_retry_attempts,         \* parameter
    flat,                       \* normalized reward samples (flat / tips)
    fh_status,                  \* what fee_history gave: "raised", "no_usable", "usable"
    median_unbuffered,          \* Optional[int]
    node_tip,                   \* Optional[int]
    attempt,                    \* max_priority_fee attempts made so far
    tip_log,                    \* outcome of each attempt: "raised", "bad", "ok"
    tip,                        \* Optional[int], set once decided
    pending_blk,                \* response of get_block("pending")
    latest_blk,                 \* response of get_block("latest")
    base_fee,                   \* Optional[int]
    max_fee                     \* Optional[int]

vars == <<impl, pc, val, ret, reward_percentile, max_priority_fee_cap_gwei,
          base_fee_bump_blocks, rpc_retry_attempts, flat, fh_status,
          median_unbuffered, node_tip, attempt, tip_log, tip, pending_blk,
          latest_blk, base_fee, max_fee>>

----------------------------------------------------------------------------
(* Bounds of the model *)

MaxStrLen == 3
MaxBytesLen == 2
MaxBlocks == 2
MaxBump == 2
MaxAttempts == 2
MaxSamples == 3
MaxSample == 4

(* Program constants *)

GWEI == 1000000000
priority_fee_buffer_pct == 10

Impls == {"estimate", "eip"}

None == <<>>
Some(v) == <<v>>

----------------------------------------------------------------------------
(* Integer helpers: Python's int(), //, round() and Decimal rounding *)

\* int(n / d) for d > 0: truncation toward zero
TruncDiv(n, d) == IF n >= 0 THEN n \div d ELSE -((-n) \div d)

\* round half to even of n / d for d > 0 (Python round(), Decimal's default)
RoundHalfEven(n, d) ==
    LET q == n \div d
        r == n % d
    IN  IF 2 * r < d THEN q
        ELSE IF 2 * r > d THEN q + 1
        ELSE IF q % 2 = 0 THEN q ELSE q + 1

\* round half up of n / d for n >= 0, d > 0 (Decimal ROUND_HALF_UP)
RoundHalfUp(n, d) ==
    LET q == n \div d
        r == n % d
    IN  IF r >= d - r THEN q + 1 ELSE q

RECURSIVE Pow(_, _)
Pow(b, e) == IF e = 0 THEN 1 ELSE b * Pow(b, e - 1)

Min(a, b) == IF a <= b THEN a ELSE b
Max(a, b) == IF a >= b THEN a ELSE b

RECURSIVE Insert(_, _)
Insert(x, s) ==
    IF s = <<>> THEN <<x>>
    ELSE IF x <= Head(s) THEN <<x>> \o s
    ELSE <<Head(s)>> \o Insert(x, Tail(s))

\* a sort that is left out
sorted_omitted(s) == s

RECURSIVE sorted(_)
sorted(s) == IF s = <<>> THEN <<>> ELSE Insert(Head(s), sorted(Tail(s)))

SeqsUpTo(S, n) == UNION {[1..k -> S] : k \in 0..n}

----------------------------------------------------------------------------
(* Raw values the node returns: None, int, str, bytes, or another object *)

Raw(kind, n, s, b) == [kind |-> kind, n |-> n, s |-> s, b |-> b]
RawNone == Raw("none", 0, <<>>, <<>>)
RawInt(n) == Raw("int", n, <<>>, <<>>)
RawStr(s) == Raw("str", 0, s, <<>>)
RawBytes(b) == Raw("bytes", 0, <<>>, b)
RawOther == Raw("other", 0, <<>>, <<>>)

HexDigits == {"0", "1", "f"}
DecDigits == {"0", "1"}
DigitVal(c) == IF c = "0" THEN 0 ELSE IF c = "1" THEN 1 ELSE 15

RECURSIVE ParseDigits(_, _, _)
\* value of a non-empty digit string in the base, None when a character is no digit
ParseDigits(s, base, acc) ==
    IF s = <<>> THEN Some(acc)
    ELSE IF Head(s) \in (IF base = 16 THEN HexDigits ELSE DecDigits)
         THEN ParseDigits(Tail(s), base, acc * base + DigitVal(Head(s)))
         ELSE None

\* int(s, base): optional sign, then (base 16) an optional 0x prefix, then digits
ParseInt(s, base) ==
    LET neg == s # <<>> /\ Head(s) = "-"
        u == IF neg THEN Tail(s) ELSE s
        pre == base = 16 /\ Len(u) >= 2 /\ u[1] = "0" /\ u[2] = "x"
        d == IF pre THEN Tail(Tail(u)) ELSE u
        m == IF d = <<>> THEN None ELSE ParseDigits(d, base, 0)
    IN  IF m = None THEN None ELSE Some(IF neg THEN -m[1] ELSE m[1])

startswith_0x(s) == Len(s) >= 2 /\ s[1] = "0" /\ s[2] = "x"

\* the text a byte string decodes to for int(): bytes 48, 49, 45 are "0", "1", "-"
ByteChar(b) == IF b = 48 THEN "0" ELSE IF b = 49 THEN "1" ELSE IF b = 45 THEN "-" ELSE "?"

RECURSIVE from_bytes_big(_, _)
from_bytes_big(b, acc) ==
    IF b = <<>> THEN acc ELSE from_bytes_big(Tail(b), acc * 256 + Head(b))

to_int_hexsafe(i, v) ==
    IF v.kind = "none" THEN None
    ELSE IF v.kind = "int" THEN Some(v.n)
    ELSE IF v.kind = "str"
         THEN IF startswith_0x(v.s) THEN ParseInt(v.s, 16) ELSE ParseInt(v.s, 10)
    ELSE IF v.kind = "bytes"
         THEN IF i = "eip" THEN Some(from_bytes_big(v.b, 0))
              ELSE ParseInt([k \in 1..Len(v.b) |-> ByteChar(v.b[k])], 10)
    ELSE None

Chars == {"0", "1", "f", "x", "-"}
Bytes == {1, 45, 49}
Ints == -1 .. 1
RawValues ==
    {RawNone, RawOther} \cup {RawInt(n) : n \in Ints}
    \cup {RawStr(s) : s \in SeqsUpTo(Chars, MaxStrLen)}
    \cup {RawBytes(b) : b \in SeqsUpTo(Bytes, MaxBytesLen)}

----------------------------------------------------------------------------
(* Unit conversion.  g is the rational g[1] / g[2] of gwei. *)

gwei_to_wei(i, g) ==
    IF i = "estimate"
    THEN TruncDiv(g[1] * GWEI, g[2])
    ELSE RoundHalfUp(g[1] * GWEI, g[2])

\* one default for both estimators
default_tip_same(i) == gwei_to_wei(i, <<1, 10>>)

\* gwei_to_wei(0.1) and gwei_to_wei(Decimal("0.2")), the last-resort tips
default_tip(i) == IF i = "estimate" THEN gwei_to_wei(i, <<1, 10>>) ELSE gwei_to_wei(i, <<2, 10>>)

----------------------------------------------------------------------------
(* Historical signal *)

\* a block's reward entry: absent (None) or a list of raw values, one per requested
\* percentile (both estimators request a single percentile)
Block(present, rs) == [present |-> present, rs |-> rs]

RECURSIVE NormalizeAll(_, _)
NormalizeAll(i, rs) ==
    IF rs = <<>> THEN <<>>
    ELSE LET rv == to_int_hexsafe(i, Head(rs))
         IN  (IF rv # None THEN <<rv[1]>> ELSE <<>>) \o NormalizeAll(i, Tail(rs))

RECURSIVE flatten_rewards(_, _)
\* estimate: every element of every block; eip: the first element of every non-empty block
flatten_rewards(i, rewards) ==
    IF rewards = <<>> THEN <<>>
    ELSE LET br == Head(rewards)
             here == IF ~br.present \/ br.rs = <<>> THEN <<>>
                     ELSE IF i = "estimate" THEN NormalizeAll(i, br.rs)
                     ELSE NormalizeAll(i, <<br.rs[1]>>)
         IN  here \o flatten_rewards(i, Tail(rewards))

\* whether percentile / 100.0 is the exact fraction (a binary fraction)
ExactFraction(percentile) == (4 * percentile) % 100 = 0

\* The set of values percentile_value can return.  k = (n-1) * (percentile / 100.0) is a
\* double: the interpolated value d0 + (k - f) * (d1 - d0) carries its rounding error,
\* which decides round() only where the exact value lies on a half and the fraction is
\* not exact; there either neighbour is possible.
percentile_value(data, percentile) ==
    IF data = <<>> THEN {None}
    ELSE LET ds == sorted(data)
             n == Len(ds)
             num == (n - 1) * percentile      \* k = num / 100
             f == num \div 100
             r == num % 100
             v == 100 * ds[f + 1] + r * (ds[f + 2] - ds[f + 1])
         IN  IF percentile <= 0 THEN {Some(ds[1])}
             ELSE IF percentile >= 100 THEN {Some(ds[n])}
             ELSE IF r = 0 THEN {Some(ds[f + 1])}
             ELSE IF v % 100 = 50 /\ ~ExactFraction(percentile)
                  THEN {Some(v \div 100), Some(v \div 100 + 1)}
             ELSE {Some(RoundHalfEven(v, 100))}

median(tips) ==
    IF tips = <<>> THEN None
    ELSE LET ts == sorted(tips)
             mid == Len(ts) \div 2
         IN  IF Len(ts) % 2 = 1 THEN Some(ts[mid + 1])
             ELSE Some((ts[mid] + ts[mid + 1]) \div 2)

\* the values median_unbuffered can take
HistoricalSignal(i, data, percentile) ==
    IF i = "estimate" THEN percentile_value(data, percentile) ELSE {median(data)}

----------------------------------------------------------------------------
(* Tip decision *)

cap_signal(o, cap) == IF o = None THEN None ELSE Some(Min(o[1], cap))

\* int(x * (1.0 + buffer)) and int((Decimal(x) * (1 + buf)).to_integral_value())
buffered(i, x) ==
    IF i = "estimate"
    THEN TruncDiv(x * (100 + priority_fee_buffer_pct), 100)
    ELSE RoundHalfEven(x * (100 + priority_fee_buffer_pct), 100)

candidates(i, m, n) ==
    (IF m = None THEN <<>> ELSE <<buffered(i, m[1])>>)
    \o (IF n = None THEN <<>> ELSE <<buffered(i, n[1])>>)

SeqMin(s) == CHOOSE x \in {s[k] : k \in 1..Len(s)} : \A j \in 1..Len(s) : x <= s[j]
SeqMax(s) == CHOOSE x \in {s[k] : k \in 1..Len(s)} : \A j \in 1..Len(s) : x >= s[j]

select_tip(i, cs) ==
    IF cs # <<>>
    THEN (IF i = "estimate" THEN SeqMin(cs) ELSE SeqMax(cs))
    ELSE default_tip(i)

\* the final cap left out
final_cap_omitted(t, cap) == t

final_cap(t, cap) == Min(t, cap)

\* m, n: the capped signals
decide_tip(i, m, n, cap) == final_cap(select_tip(i, candidates(i, m, n)), cap)

----------------------------------------------------------------------------
(* Base fee *)

Truthy(v) ==
    IF v.kind = "none" THEN FALSE
    ELSE IF v.kind = "int" THEN v.n # 0
    ELSE IF v.kind = "str" THEN v.s # <<>>
    ELSE IF v.kind = "bytes" THEN v.b # <<>>
    ELSE TRUE

py_or(a, b) == IF Truthy(a) THEN a ELSE b

BlockResp(kind, a, b) == [kind |-> kind, baseFeePerGas |-> a, baseFee |-> b]
Unqueried == BlockResp("unqueried", RawNone, RawNone)
BlockRaises == BlockResp("raise", RawNone, RawNone)

\* base_fee after one pass of the loop body
base_fee_of(i, resp) ==
    IF resp.kind = "raise" THEN None
    ELSE to_int_hexsafe(i, py_or(resp.baseFeePerGas, resp.baseFee))

projected_base_max(i, b, n) ==
    IF i = "estimate"
    THEN TruncDiv(b * Pow(9, n), Pow(8, n))
    ELSE (b * Pow(9, n) + Pow(8, n) - 1) \div Pow(8, n)

----------------------------------------------------------------------------
(* Inputs *)

\* max_priority_fee_cap_gwei: 1.0 (the default), 2e-8 and 5e-10 gwei
CapChoices == {<<1, 1>>, <<2, 100000000>>, <<1, 2000000000>>}

\* reward_percentile: the default of each estimator
default_percentile(i) == IF i = "estimate" THEN 50 ELSE 40

RewardRaws == {RawInt(10), RawStr(<<"0", "x", "1", "f">>), RawStr(<<"x">>)}
RewardBlocks ==
    {Block(FALSE, <<>>), Block(TRUE, <<>>)} \cup {Block(TRUE, <<r>>) : r \in RewardRaws}

FeeHistoryResp(kind, reward) == [kind |-> kind, reward |-> reward]
FeeHistoryResponses ==
    {FeeHistoryResp("raise", <<>>), FeeHistoryResp("no_reward", <<>>)}
    \cup {FeeHistoryResp("ok", rw) : rw \in SeqsUpTo(RewardBlocks, MaxBlocks)}

NodeTipRaws == {RawNone, RawInt(12), RawInt(-4), RawStr(<<"x">>)}
NodeTipResp(kind, raw) == [kind |-> kind, raw |-> raw]
NodeTipResponses ==
    {NodeTipResp("raise", RawNone)} \cup {NodeTipResp("value", r) : r \in NodeTipRaws}

BaseFeePerGasRaws == {RawNone, RawInt(0), RawInt(1), RawInt(-8), RawStr(<<"x">>)}
BaseFeeRaws == {RawNone, RawInt(8)}
BlockResponses ==
    {BlockRaises}
    \cup {BlockResp("blk", a, b) : a \in BaseFeePerGasRaws, b \in BaseFeeRaws}

\* whether a fee_history response holds a reward sample that normalizes
HasUsableSample(i, resp) ==
    /\ resp.kind = "ok"
    /\ \E k \in 1..Len(resp.reward) :
          /\ resp.reward[k].present
          /\ \E j \in 1..Len(resp.reward[k].rs) :
                to_int_hexsafe(i, resp.reward[k].rs[j]) # None

----------------------------------------------------------------------------
(* The call *)

Init ==
    /\ impl \in Impls
    /\ pc = "fee_history"
    /\ val = RawNone
    /\ ret = None
    /\ reward_percentile = default_percentile(impl)
    /\ max_priority_fee_cap_gwei \in CapChoices
    /\ base_fee_bump_blocks \in 0..MaxBump
    /\ rpc_retry_attempts \in 0..MaxAttempts
    /\ flat = <<>>
    /\ fh_status = "none"
    /\ median_unbuffered = None
    /\ node_tip = None
    /\ attempt = 0
    /\ tip_log = <<>>
    /\ tip = None
    /\ pending_blk = Unqueried
    /\ latest_blk = Unqueried
    /\ base_fee = None
    /\ max_fee = None

params == <<impl, val, ret, reward_percentile, max_priority_fee_cap_gwei,
            base_fee_bump_blocks, rpc_retry_attempts>>

\* 1) fee_history inside try/except: a raise, or a reward that cannot be iterated,
\*    leaves median_unbuffered None
FeeHistory ==
    /\ pc = "fee_history"
    /\ \E resp \in FeeHistoryResponses :
          LET data == IF resp.kind = "ok" THEN flatten_rewards(impl, resp.reward) ELSE <<>>
          IN  /\ flat' = data
              /\ median_unbuffered' \in HistoricalSignal(impl, data, reward_percentile)
              /\ fh_status' = IF resp.kind = "raise" THEN "raised"
                              ELSE IF HasUsableSample(impl, resp) THEN "usable"
                              ELSE "no_usable"
    /\ pc' = "node_tip"
    /\ UNCHANGED <<params, node_tip, attempt, tip_log, tip, pending_blk, latest_blk,
                   base_fee, max_fee>>

\* 2) one pass of the max_priority_fee loop: an exception sleeps and goes round again,
\*    anything else assigns node_tip and breaks.  The reads of w3.eth.max_priority_fee
\*    within one pass (hasattr, the read, the TypeError fallback) are one outcome: the
\*    pass raises, or it ends with a raw value (RawNone when the attribute is absent).
node_tip_next_pc(resp) == IF resp.kind = "raise" THEN "node_tip" ELSE "decide_tip"

NodeTipAttempt ==
    /\ pc = "node_tip"
    /\ attempt < rpc_retry_attempts
    /\ \E resp \in NodeTipResponses :
          /\ node_tip' = IF resp.kind = "raise" THEN None
                         ELSE to_int_hexsafe(impl, resp.raw)
          /\ tip_log' = Append(tip_log,
                               IF resp.kind = "raise" THEN "raised"
                               ELSE IF to_int_hexsafe(impl, resp.raw) = None THEN "bad"
                               ELSE "ok")
          /\ pc' = node_tip_next_pc(resp)
    /\ attempt' = attempt + 1
    /\ UNCHANGED <<params, flat, fh_status, median_unbuffered, tip, pending_blk,
                   latest_blk, base_fee, max_fee>>

\* the loop's range is exhausted
NodeTipExhausted ==
    /\ pc = "node_tip"
    /\ attempt >= rpc_retry_attempts
    /\ pc' = "decide_tip"
    /\ UNCHANGED <<params, flat, fh_status, median_unbuffered, node_tip, attempt,
                   tip_log, tip, pending_blk, latest_blk, base_fee, max_fee>>

MAX_PRIORITY_CAP_WEI == gwei_to_wei(impl, max_priority_fee_cap_gwei)

\* 3) cap both signals, buffer them, select, cap again
DecideTip ==
    /\ pc = "decide_tip"
    /\ node_tip' = cap_signal(node_tip, MAX_PRIORITY_CAP_WEI)
    /\ median_unbuffered' = cap_signal(median_unbuffered, MAX_PRIORITY_CAP_WEI)
    /\ tip' = Some(decide_tip(impl, median_unbuffered', node_tip', MAX_PRIORITY_CAP_WEI))
    /\ pc' = "get_pending"
    /\ UNCHANGED <<params, flat, fh_status, attempt, tip_log, pending_blk, latest_blk,
                   base_fee, max_fee>>

\* 4) get_block("pending"); "latest" follows unless a base fee was read
GetBlockPending ==
    /\ pc = "get_pending"
    /\ \E resp \in BlockResponses :
          /\ pending_blk' = resp
          /\ base_fee' = base_fee_of(impl, resp)
    /\ pc' = IF base_fee' # None THEN "project" ELSE "get_latest"
    /\ UNCHANGED <<params, flat, fh_status, median_unbuffered, node_tip, attempt,
                   tip_log, tip, latest_blk, max_fee>>

\* get_block("latest"); with no base fee after it the call raises RuntimeError
GetBlockLatest ==
    /\ pc = "get_latest"
    /\ \E resp \in BlockResponses :
          /\ latest_blk' = resp
          /\ base_fee' = base_fee_of(impl, resp)
    /\ pc' = IF base_fee' # None THEN "project" ELSE "raised"
    /\ UNCHANGED <<params, flat, fh_status, median_unbuffered, node_tip, attempt,
                   tip_log, tip, pending_blk, max_fee>>

\* 5) projected base fee plus tip; the call returns
Project ==
    /\ pc = "project"
    /\ max_fee' = Some(projected_base_max(impl, base_fee[1], base_fee_bump_blocks) + tip[1])
    /\ pc' = "done"
    /\ UNCHANGED <<params, flat, fh_status, median_unbuffered, node_tip, attempt,
                   tip_log, tip, pending_blk, latest_blk, base_fee>>

Next ==
    \/ FeeHistory
    \/ NodeTipAttempt
    \/ NodeTipExhausted
    \/ DecideTip
    \/ GetBlockPending
    \/ GetBlockLatest
    \/ Project

Spec == Init /\ [][Next]_vars

----------------------------------------------------------------------------
(* to_int_hexsafe on its own: one call on one raw value *)

InitNorm ==
    /\ impl \in Impls
    /\ pc = "to_int_hexsafe"
    /\ val \in RawValues
    /\ ret = None
    /\ reward_percentile = default_percentile(impl)
    /\ max_priority_fee_cap_gwei = <<1, 1>>
    /\ base_fee_bump_blocks = 0
    /\ rpc_retry_attempts = 0
    /\ flat = <<>>
    /\ fh_status = "none"
    /\ median_unbuffered = None
    /\ node_tip = None
    /\ attempt = 0
    /\ tip_log = <<>>
    /\ tip = None
    /\ pending_blk = Unqueried
    /\ latest_blk = Unqueried
    /\ base_fee = None
    /\ max_fee = None

\* every raising conversion sits in a try/except Exception that returns None
Normalize ==
    /\ pc = "to_int_hexsafe"
    /\ ret' = to_int_hexsafe(impl, val)
    /\ pc' = "returned"
    /\ UNCHANGED <<impl, val, reward_percentile, max_priority_fee_cap_gwei,
                   base_fee_bump_blocks, rpc_retry_attempts, flat, fh_status,
                   median_unbuffered, node_tip, attempt, tip_log, tip, pending_blk,
                   latest_blk, base_fee, max_fee>>

NextNorm == Normalize

SpecNorm == InitNorm /\ [][NextNorm]_vars

----------------------------------------------------------------------------
(* The historical signal on its own: one computation on one sample list *)

Percentiles == {-5, 0, 25, 40, 50, 70, 75, 100, 120}
Samples == -1 .. MaxSample

InitPct ==
    /\ impl \in Impls
    /\ pc = "historical"
    /\ val = RawNone
    /\ ret = None
    /\ reward_percentile \in Percentiles
    /\ max_priority_fee_cap_gwei = <<1, 1>>
    /\ base_fee_bump_blocks = 0
    /\ rpc_retry_attempts = 0
    /\ flat \in SeqsUpTo(Samples, MaxSamples)
    /\ fh_status = "none"
    /\ median_unbuffered = None
    /\ node_tip = None
    /\ attempt = 0
    /\ tip_log = <<>>
    /\ tip = None
    /\ pending_blk = Unqueried
    /\ latest_blk = Unqueried
    /\ base_fee = None
    /\ max_fee = None

ComputeSignal ==
    /\ pc = "historical"
    /\ median_unbuffered' \in HistoricalSignal(impl, flat, reward_percentile)
    /\ pc' = "returned"
    /\ UNCHANGED <<params, flat, fh_status, node_tip, attempt, tip_log, tip, pending_blk,
                   latest_blk, base_fee, max_fee>>

NextPct == ComputeSignal

SpecPct == InitPct /\ [][NextPct]_vars

----------------------------------------------------------------------------
(* Properties *)

\* the node-suggested tip counts as available when the last attempt gave an integer
NodeTipGiven == tip_log # <<>> /\ tip_log[Len(tip_log)] = "ok"
HistoryGiven == fh_status = "usable"

\* C1: the returned tip never exceeds the configured cap in wei, whatever signals
\* were available.
C1_TipWithinCap ==
    pc = "done" => tip[1] <= MAX_PRIORITY_CAP_WEI

\* a call returns whose capped historical signal, once buffered, exceeds the cap
C1_Witness ==
    /\ pc = "done"
    /\ HistoryGiven
    /\ median_unbuffered = Some(MAX_PRIORITY_CAP_WEI)
    /\ buffered(impl, median_unbuffered[1]) > MAX_PRIORITY_CAP_WEI
    /\ tip = Some(MAX_PRIORITY_CAP_WEI)

\* C2: every returned result has max_fee >= base_fee and max_fee >= tip.
C2_MaxFeeCoversBaseAndTip ==
    pc = "done" => max_fee[1] >= base_fee[1] /\ max_fee[1] >= tip[1]

\* ceil(n / d) for d > 0
Ceil(n, d) == -((-n) \div d)

\* C3: for a base fee b >= 0 and n bump blocks the returned max_fee is exactly
\* ceil(b * 9^n / 8^n) + tip.
C3_MaxFeeIsCeilProjection ==
    (pc = "done" /\ base_fee[1] >= 0) =>
        max_fee[1] = Ceil(base_fee[1] * Pow(9, base_fee_bump_blocks),
                          Pow(8, base_fee_bump_blocks)) + tip[1]

\* C4: with both signals available the returned tip is
\* min(cap, max(buffered historical, buffered node)): the larger candidate is selected.
C4_TipIsMaxOfCandidates ==
    (pc = "done" /\ HistoryGiven /\ NodeTipGiven) =>
        tip[1] = Min(MAX_PRIORITY_CAP_WEI,
                     Max(buffered(impl, median_unbuffered[1]), buffered(impl, node_tip[1])))

\* a get_block response carries a base fee: one of the two fields normalizes to an integer
YieldsBaseFee(resp) ==
    /\ resp.kind = "blk"
    /\ \/ to_int_hexsafe(impl, resp.baseFeePerGas) # None
       \/ to_int_hexsafe(impl, resp.baseFee) # None

\* C5: the call raises if and only if neither get_block("pending") nor
\* get_block("latest") yields a base fee; a raising call returns no result; failures of
\* fee_history or max_priority_fee never make it raise.
C5_RaisesIffNoBaseFee ==
    pc \in {"done", "raised"} =>
        /\ pc = "raised" <=> (~YieldsBaseFee(pending_blk) /\ ~YieldsBaseFee(latest_blk))
        /\ pc = "raised" => max_fee = None

C7_RetryUntilExhausted ==
    (pc \notin {"fee_history", "node_tip"} /\ ~NodeTipGiven) =>
        /\ Len(tip_log) = rpc_retry_attempts
        /\ pc # "raised" \/ base_fee = None

\* the integers the base-fee fields of a response normalize to
FieldBaseFees(resp) ==
    IF resp.kind # "blk" THEN {}
    ELSE {to_int_hexsafe(impl, resp.baseFeePerGas), to_int_hexsafe(impl, resp.baseFee)}
         \ {None}

\* a response carries a base-fee field that normalizes to a non-negative integer
CarriesBaseFee(resp) == \E o \in FieldBaseFees(resp) : o[1] >= 0

\* C8: "pending" is queried before "latest"; when the pending block carries a base-fee
\* field that normalizes to a non-negative integer, the returned base fee is the value
\* of a base-fee field of that block and "latest" is not queried; "latest" is queried
\* only when the pending query raised or carried no base fee.
C8_PendingPreferred ==
    /\ latest_blk # Unqueried => pending_blk # Unqueried
    /\ pc \in {"done", "raised"} =>
          /\ CarriesBaseFee(pending_blk) =>
                /\ pc = "done"
                /\ latest_blk = Unqueried
                /\ base_fee \in FieldBaseFees(pending_blk)
          /\ latest_blk # Unqueried => ~CarriesBaseFee(pending_blk)

\* C9: to_int_hexsafe never raises and returns None or a non-negative integer.
C9_NormalizedIsNonNegative ==
    pc = "returned" => (ret = None \/ ret[1] >= 0)

Elems(s) == {s[k] : k \in 1..Len(s)}
CountBelow(s, x) == Cardinality({k \in 1..Len(s) : s[k] < x})
CountAbove(s, x) == Cardinality({k \in 1..Len(s) : s[k] > x})
\* x is the middle element of the odd-length s in sorted order
IsMiddle(s, x) ==
    /\ x \in Elems(s)
    /\ 2 * CountBelow(s, x) < Len(s)
    /\ 2 * CountAbove(s, x) < Len(s)

====
